---- MODULE Spec2Model ----
(***************************************************************************)
(* Model of generate_azure_ipam.py: the exclusion engine                   *)
(* (find_unused_subnets), the row normaliser (sort_ipam_dataframe), the    *)
(* collector (collect_azure_ipam_data), the unused-subnet loop of main and *)
(* the aggregator (get_pie_data).                                          *)
(*                                                                         *)
(* Three specifications share the module:                                  *)
(*   SpecEngine  find_unused_subnets, one loop iteration per step          *)
(*   SpecSort    sort_ipam_dataframe on an arbitrary row sequence          *)
(*   Spec        collect_azure_ipam_data, main's loop, get_pie_data        *)
(***************************************************************************)
EXTENDS Integers, Sequences, FiniteSets, TLC

\* ------------------------------------------------------------------------
\* Bounds
\* ------------------------------------------------------------------------
\* address width in bits (32 or 128 in the program)
W == 3
\* number of occupied networks handed to find_unused_subnets
MaxUsed == 2
\* number of parent ranges the user enters
MaxCidrs == 2
\* number of address prefixes / subnets the inventory returns
MaxItems == 2
\* longest prefix length of a network the inventory returns
MaxItemPrefix == 1
\* number of rows handed to sort_ipam_dataframe
MaxRows == 3

VARIABLES
    mode,              \* which function is running: "engine", "sort", "main"
    pc,                \* position inside that function
    parent_cidr,       \* find_unused_subnets: parameter
    used_networks,     \* find_unused_subnets: parameter (textual networks)
    used,              \* find_unused_subnets: sorted parsed networks
    available,         \* find_unused_subnets: working set
    i,                 \* find_unused_subnets: index of the next u in used
    excluded,          \* history: excluded[k] iff used[k] was inside some a
    df,                \* sort_ipam_dataframe: parameter
    sorted_df,         \* sort_ipam_dataframe: return value
    user_cidrs,        \* main: parents entered by the user
    discovered,        \* history: what the inventory returned so far
    cidr_data,         \* main: rows per str(cidr)
    used_subnets_map,  \* main: set of str(net) per str(cidr)
    n,                 \* main: index of the next user_cidr of the loop
    pie_data           \* main: result of get_pie_data

vars == <<mode, pc, parent_cidr, used_networks, used, available, i, excluded,
          df, sorted_df, user_cidrs, discovered, cidr_data, used_subnets_map,
          n, pie_data>>

engineVars == <<parent_cidr, used_networks, used, available, i, excluded>>
sortVars == <<df, sorted_df>>
mainVars == <<user_cidrs, discovered, cidr_data, used_subnets_map, n, pie_data>>

\* ------------------------------------------------------------------------
\* ipaddress: networks, textual form, containment, subtraction
\* ------------------------------------------------------------------------
RECURSIVE Pow2(_)
Pow2(k) == IF k = 0 THEN 1 ELSE 2 * Pow2(k - 1)

\* a network object: base address and prefix length, no host bits set
Network(a, p) == [network_address |-> a, prefixlen |-> p]

Networks ==
    { Network(a, p) : a \in 0 .. Pow2(W) - 1, p \in 0 .. W } \cap
    { b \in [network_address : 0 .. Pow2(W) - 1, prefixlen : 0 .. W] :
        b.network_address % Pow2(W - b.prefixlen) = 0 }

num_addresses(b) == Pow2(W - b.prefixlen)

broadcast_address(b) == b.network_address + num_addresses(b) - 1

\* str(address): the textual form, most significant digit first
AddrStr(a) == [k \in 1 .. W |-> (a \div Pow2(W - k)) % 2]

RECURSIVE ParseDigits(_, _)
ParseDigits(s, acc) ==
    IF s = <<>> THEN acc ELSE ParseDigits(Tail(s), 2 * acc + Head(s))

\* int(ip_address(text))
ParseAddr(s) == ParseDigits(s, 0)

\* str(network): "address/prefixlen"
NetStr(b) == <<AddrStr(b.network_address), b.prefixlen>>

\* ipaddress.ip_network("address/prefixlen")
ip_network(s) == Network(ParseAddr(s[1]), s[2])

\* a.subnet_of(b)
subnet_of(a, b) ==
    /\ b.network_address <= a.network_address
    /\ broadcast_address(b) >= broadcast_address(a)

\* a.subnets(): the two halves, lower first
subnets(a) ==
    << Network(a.network_address, a.prefixlen + 1),
       Network(a.network_address + num_addresses(a) \div 2, a.prefixlen + 1) >>

\* a plausible wrong subtraction: every sibling on the way down is replaced
\* by the half that holds `other`
RECURSIVE address_exclude_kept(_, _)
address_exclude_kept(self, other) ==
    IF other = self \/ self.prefixlen >= W THEN <<>>
    ELSE LET s == subnets(self) IN
         IF s[1] = other THEN <<s[1]>>
         ELSE IF s[2] = other THEN <<s[2]>>
         ELSE IF subnet_of(other, s[1])
              THEN <<s[1]>> \o address_exclude_kept(s[1], other)
              ELSE <<s[2]>> \o address_exclude_kept(s[2], other)

\* a plausible wrong subtraction: the last sibling is never yielded
RECURSIVE address_exclude_short(_, _)
address_exclude_short(self, other) ==
    IF other = self \/ self.prefixlen >= W THEN <<>>
    ELSE LET s == subnets(self) IN
         IF s[1] = other \/ s[2] = other THEN <<>>
         ELSE IF subnet_of(other, s[1])
              THEN <<s[2]>> \o address_exclude_short(s[1], other)
              ELSE <<s[1]>> \o address_exclude_short(s[2], other)

\* a plausible non-minimal subtraction: all subnets of self at other's
\* prefix length, except other
address_exclude_flat(self, other) ==
    LET step == num_addresses(other)
        cnt  == num_addresses(self) \div step
        all  == [k \in 1 .. cnt |->
                    Network(self.network_address + (k - 1) * step,
                            other.prefixlen)]
    IN SelectSeq(all, LAMBDA b : b # other)

\* list(self.address_exclude(other)), for other.subnet_of(self)
RECURSIVE address_exclude(_, _)
address_exclude(self, other) ==
    IF other = self THEN <<>>
    ELSE LET s == subnets(self) IN
         IF s[1] = other THEN <<s[2]>>
         ELSE IF s[2] = other THEN <<s[1]>>
         ELSE IF subnet_of(other, s[1])
              THEN <<s[2]>> \o address_exclude(s[1], other)
              ELSE <<s[1]>> \o address_exclude(s[2], other)

\* ------------------------------------------------------------------------
\* find_unused_subnets
\* ------------------------------------------------------------------------
\* a plausible wrong key: longer prefixes first
UsedKeyLessLongestFirst(a, b) ==
    \/ a.prefixlen > b.prefixlen
    \/ a.prefixlen = b.prefixlen /\ a.network_address < b.network_address

\* key=lambda n: (n.network_address, n.prefixlen), compared as tuples
UsedKeyLess(a, b) ==
    \/ a.network_address < b.network_address
    \/ a.network_address = b.network_address /\ a.prefixlen < b.prefixlen

\* insert x into the sorted s behind every element whose key is not greater
InsertUsed(s, x) ==
    LET k == Cardinality({ j \in 1 .. Len(s) : ~UsedKeyLess(x, s[j]) })
    IN SubSeq(s, 1, k) \o <<x>> \o SubSeq(s, k + 1, Len(s))

RECURSIVE SortedUsed(_, _)
SortedUsed(s, acc) ==
    IF s = <<>> THEN acc ELSE SortedUsed(Tail(s), InsertUsed(acc, Head(s)))

\* sorted([ip_network(n) for n in used_networks], key=...)
SortUsed(nets) == SortedUsed([k \in 1 .. Len(nets) |-> ip_network(nets[k])], <<>>)

\* the loop body with the else branch lost: a is appended in both cases
RECURSIVE ExcludeFromAllKeep(_, _)
ExcludeFromAllKeep(avail, u) ==
    IF avail = <<>> THEN <<>>
    ELSE LET a == Head(avail) IN
         (IF subnet_of(u, a) THEN address_exclude(a, u) \o <<a>> ELSE <<a>>)
         \o ExcludeFromAllKeep(Tail(avail), u)

\* the loop body with the else branch's append lost
RECURSIVE ExcludeFromAllDrop(_, _)
ExcludeFromAllDrop(avail, u) ==
    IF avail = <<>> THEN <<>>
    ELSE LET a == Head(avail) IN
         (IF subnet_of(u, a) THEN address_exclude(a, u) ELSE <<>>)
         \o ExcludeFromAllDrop(Tail(avail), u)

\* one iteration of `for u in used`: the new_available built from available
RECURSIVE ExcludeFromAll(_, _)
ExcludeFromAll(avail, u) ==
    IF avail = <<>> THEN <<>>
    ELSE LET a == Head(avail) IN
         (IF subnet_of(u, a) THEN address_exclude(a, u) ELSE <<a>>)
         \o ExcludeFromAll(Tail(avail), u)

RECURSIVE ExcludeEach(_, _)
ExcludeEach(avail, us) ==
    IF us = <<>> THEN avail
    ELSE ExcludeEach(ExcludeFromAll(avail, Head(us)), Tail(us))

\* find_unused_subnets(parent_cidr, used_networks) as a function
find_unused_subnets(p, nets) == ExcludeEach(<<p>>, SortUsed(nets))

\* bounded sequences over a set
SeqUpTo(S, m) == UNION { [1 .. k -> S] : k \in 0 .. m }

\* the parent ranges tried: the whole address space and its two halves
Parents == { Network(0, 0) } \cup { subnets(Network(0, 0))[k] : k \in {1, 2} }

Idle == "idle"

EngineIdle ==
    /\ parent_cidr = Idle /\ used_networks = <<>> /\ used = <<>>
    /\ available = <<>> /\ i = 0 /\ excluded = <<>>

SortIdle == df = <<>> /\ sorted_df = <<>>

MainIdle ==
    /\ user_cidrs = <<>> /\ discovered = <<>> /\ cidr_data = <<>>
    /\ used_subnets_map = <<>> /\ n = 0 /\ pie_data = <<>>

\* the call: any parent, any collection of textual networks
InitEngine ==
    /\ mode = "engine"
    /\ pc = "sort"
    /\ parent_cidr \in Parents
    /\ used_networks \in SeqUpTo({ NetStr(b) : b \in Networks }, MaxUsed)
    /\ used = <<>>
    /\ available = <<>>
    /\ i = 0
    /\ excluded = <<>>
    /\ SortIdle
    /\ MainIdle

\* lines 89-90
EngineSort ==
    /\ mode = "engine" /\ pc = "sort"
    /\ used' = SortUsed(used_networks)
    /\ available' = <<parent_cidr>>
    /\ i' = 1
    /\ pc' = "loop"
    /\ UNCHANGED <<mode, parent_cidr, used_networks, excluded>>
    /\ UNCHANGED sortVars /\ UNCHANGED mainVars

\* lines 91-98, one u
EngineStep ==
    /\ mode = "engine" /\ pc = "loop"
    /\ i <= Len(used)
    /\ available' = ExcludeFromAll(available, used[i])
    /\ excluded' = Append(excluded,
                          \E k \in 1 .. Len(available) :
                              subnet_of(used[i], available[k]))
    /\ i' = i + 1
    /\ UNCHANGED <<mode, pc, parent_cidr, used_networks, used>>
    /\ UNCHANGED sortVars /\ UNCHANGED mainVars

\* line 99
EngineReturn ==
    /\ mode = "engine" /\ pc = "loop"
    /\ i > Len(used)
    /\ pc' = "done"
    /\ UNCHANGED engineVars
    /\ UNCHANGED mode /\ UNCHANGED sortVars /\ UNCHANGED mainVars

NextEngine == EngineSort \/ EngineStep \/ EngineReturn

SpecEngine == InitEngine /\ [][NextEngine]_vars

\* ------------------------------------------------------------------------
\* Rows
\* ------------------------------------------------------------------------
\* the text "N/A" (character codes); never a valid address text
NA == <<78, 47, 65>>

\* the text "N/A" in the integer column "CIDR Prefix"
NAPrefix == 0 - 1

\* the metadata of a row that has none (empty strings)
NoOwner == 0

IpRange(net) == <<AddrStr(net.network_address), AddrStr(broadcast_address(net))>>

\* lines 229-239 and 260-270; owner stands for the VNet, resource group,
\* subscription and region names
UsedRow(net, name, owner) ==
    [Address |-> AddrStr(net.network_address), Prefix |-> net.prefixlen,
     Range |-> IpRange(net), Name |-> name, Owner |-> owner, Status |-> "Used"]

\* lines 245-255
NoAddressRow(name, owner) ==
    [Address |-> NA, Prefix |-> NAPrefix, Range |-> <<NA, NA>>, Name |-> name,
     Owner |-> owner, Status |-> "No address space assigned"]

\* lines 285-295
UnusedRow(net) ==
    [Address |-> AddrStr(net.network_address), Prefix |-> net.prefixlen,
     Range |-> IpRange(net), Name |-> "", Owner |-> NoOwner, Status |-> "Unused"]

\* ------------------------------------------------------------------------
\* sort_ipam_dataframe
\* ------------------------------------------------------------------------
\* float('inf'): above every address
Inf == Pow2(W)

IsAddrText(s) == Len(s) = W /\ \A k \in 1 .. Len(s) : s[k] \in {0, 1}

\* ip_key(addr): the numeric address, or infinity when addr does not parse
ip_key(addr) == IF IsAddrText(addr) THEN ParseAddr(addr) ELSE Inf

\* order of the "CIDR Prefix" column: numbers ascending, then text
PrefixLess(p, q) ==
    \/ p # NAPrefix /\ q # NAPrefix /\ p < q
    \/ p # NAPrefix /\ q = NAPrefix

\* order of the "Status" column: string comparison
StatusRank(st) ==
    CASE st = "No address space assigned" -> 0
      [] st = "Unused" -> 1
      [] st = "Used" -> 2

\* a plausible wrong key: by=["_ip_sort", "CIDR Prefix"]
RowKeyLessNoStatus(r, q) ==
    \/ ip_key(r.Address) < ip_key(q.Address)
    \/ /\ ip_key(r.Address) = ip_key(q.Address)
       /\ PrefixLess(r.Prefix, q.Prefix)

\* by=["_ip_sort", "CIDR Prefix", "Status"]
RowKeyLess(r, q) ==
    \/ ip_key(r.Address) < ip_key(q.Address)
    \/ /\ ip_key(r.Address) = ip_key(q.Address)
       /\ \/ PrefixLess(r.Prefix, q.Prefix)
          \/ /\ r.Prefix = q.Prefix
             /\ StatusRank(r.Status) < StatusRank(q.Status)

\* sort_values is stable: a row goes behind every row whose key is not greater
InsertRow(s, x) ==
    LET k == Cardinality({ j \in 1 .. Len(s) : ~RowKeyLess(x, s[j]) })
    IN SubSeq(s, 1, k) \o <<x>> \o SubSeq(s, k + 1, Len(s))

RECURSIVE SortedRows(_, _)
SortedRows(s, acc) ==
    IF s = <<>> THEN acc ELSE SortedRows(Tail(s), InsertRow(acc, Head(s)))

\* sort_ipam_dataframe(df); a frame built from no rows has no columns
sort_ipam_dataframe(d) == IF d = <<>> THEN d ELSE SortedRows(d, <<>>)

SortNames == {1, 2}

SortRows ==
    { UsedRow(b, "vnet-scope", o) : b \in Parents, o \in SortNames }
    \cup { UnusedRow(b) : b \in Parents }
    \cup { NoAddressRow("subnet", o) : o \in SortNames }

InitSort ==
    /\ mode = "sort"
    /\ pc = "call"
    /\ df \in SeqUpTo(SortRows, MaxRows)
    /\ sorted_df = <<>>
    /\ EngineIdle
    /\ MainIdle

\* lines 107 (false) and 111
SortNoColumns ==
    /\ mode = "sort" /\ pc = "call"
    /\ df = <<>>
    /\ sorted_df' = df
    /\ pc' = "done"
    /\ UNCHANGED <<mode, df>>
    /\ UNCHANGED engineVars /\ UNCHANGED mainVars

\* lines 107-111
SortByKeys ==
    /\ mode = "sort" /\ pc = "call"
    /\ df # <<>>
    /\ sorted_df' = sort_ipam_dataframe(df)
    /\ pc' = "done"
    /\ UNCHANGED <<mode, df>>
    /\ UNCHANGED engineVars /\ UNCHANGED mainVars

NextSort == SortNoColumns \/ SortByKeys

SpecSort == InitSort /\ [][NextSort]_vars

\* ------------------------------------------------------------------------
\* collect_azure_ipam_data, main, get_pie_data
\* ------------------------------------------------------------------------
RECURSIVE SetToSeq(_)
SetToSeq(S) ==
    IF S = {} THEN <<>>
    ELSE LET x == CHOOSE y \in S : TRUE IN <<x>> \o SetToSeq(S \ {x})

CidrKeys(cidrs) == { NetStr(cidrs[k]) : k \in 1 .. Len(cidrs) }

\* `for user_cidr in user_cidrs: if net.subnet_of(user_cidr): append(row)`
RECURSIVE AppendWhereInside(_, _, _, _)
AppendWhereInside(data, cidrs, net, row) ==
    IF cidrs = <<>> THEN data
    ELSE LET c == Head(cidrs)
             d == IF subnet_of(net, c)
                  THEN [data EXCEPT ![NetStr(c)] = Append(@, row)]
                  ELSE data
         IN AppendWhereInside(d, Tail(cidrs), net, row)

\* `for user_cidr in user_cidrs: if net.subnet_of(user_cidr): add(str(net))`
RECURSIVE AddWhereInside(_, _, _)
AddWhereInside(map, cidrs, net) ==
    IF cidrs = <<>> THEN map
    ELSE LET c == Head(cidrs)
             m == IF subnet_of(net, c)
                  THEN [map EXCEPT ![NetStr(c)] = @ \cup {NetStr(net)}]
                  ELSE map
         IN AddWhereInside(m, Tail(cidrs), net)

\* `for user_cidr in user_cidrs: append(row)`
RECURSIVE AppendForEach(_, _, _)
AppendForEach(data, cidrs, row) ==
    IF cidrs = <<>> THEN data
    ELSE AppendForEach([data EXCEPT ![NetStr(Head(cidrs))] = Append(@, row)],
                       Tail(cidrs), row)

RECURSIVE AppendRows(_, _)
AppendRows(rows, nets) ==
    IF nets = <<>> THEN rows
    ELSE AppendRows(Append(rows, UnusedRow(Head(nets))), Tail(nets))

RECURSIVE UsedIps(_)
UsedIps(rows) ==
    IF rows = <<>> THEN 0
    ELSE (IF Head(rows).Status = "Used"
          THEN num_addresses(ip_network(<<Head(rows).Address, Head(rows).Prefix>>))
          ELSE 0) + UsedIps(Tail(rows))

\* a plausible wrong summary: total_ips - used_ips, not clamped
UnallocatedUnclamped(total_ips, used_ips) == total_ips - used_ips

\* max(total_ips - used_ips, 0)
Unallocated(total_ips, used_ips) ==
    IF total_ips - used_ips > 0 THEN total_ips - used_ips ELSE 0

get_pie_data(cidrs, data) ==
    [k \in 1 .. Len(cidrs) |->
        LET total_ips == num_addresses(cidrs[k])
            used_ips  == UsedIps(data[NetStr(cidrs[k])])
        IN [CIDR_Range |-> NetStr(cidrs[k]),
            Allocated |-> used_ips,
            Unallocated |-> Unallocated(total_ips, used_ips)]]

\* the networks the inventory may report
InventoryNets == { b \in Networks : b.prefixlen <= MaxItemPrefix }

\* get_user_cidrs returns a non-empty list of networks
InitMain ==
    /\ mode = "main"
    /\ pc = "collect"
    /\ user_cidrs \in SeqUpTo(Parents, MaxCidrs) \ {<<>>}
    /\ discovered = <<>>
    /\ cidr_data = [k \in CidrKeys(user_cidrs) |-> <<>>]
    /\ used_subnets_map = [k \in CidrKeys(user_cidrs) |-> {}]
    /\ n = 0
    /\ pie_data = <<>>
    /\ EngineIdle
    /\ SortIdle

\* lines 225-240, one address prefix of a VNet
CollectVnetPrefix ==
    /\ mode = "main" /\ pc = "collect"
    /\ Len(discovered) < MaxItems
    /\ \E vnet_net \in InventoryNets :
        LET owner == Len(discovered) + 1 IN
        /\ discovered' = Append(discovered,
                                [kind |-> "vnet", prefix |-> NetStr(vnet_net)])
        /\ cidr_data' = AppendWhereInside(cidr_data, user_cidrs, vnet_net,
                                          UsedRow(vnet_net, "vnet-scope", owner))
        /\ used_subnets_map' = AddWhereInside(used_subnets_map, user_cidrs, vnet_net)
    /\ UNCHANGED <<mode, pc, user_cidrs, n, pie_data>>
    /\ UNCHANGED engineVars /\ UNCHANGED sortVars

\* lines 243-256, a subnet without address prefix
CollectSubnetNoPrefix ==
    /\ mode = "main" /\ pc = "collect"
    /\ Len(discovered) < MaxItems
    /\ LET owner == Len(discovered) + 1 IN
        /\ discovered' = Append(discovered, [kind |-> "subnet", prefix |-> <<>>])
        /\ cidr_data' = AppendForEach(cidr_data, user_cidrs,
                                      NoAddressRow("subnet", owner))
    /\ UNCHANGED <<mode, pc, user_cidrs, used_subnets_map, n, pie_data>>
    /\ UNCHANGED engineVars /\ UNCHANGED sortVars

\* lines 257-271, a subnet with address prefix
CollectSubnet ==
    /\ mode = "main" /\ pc = "collect"
    /\ Len(discovered) < MaxItems
    /\ \E subnet_net \in InventoryNets :
        LET owner == Len(discovered) + 1 IN
        /\ discovered' = Append(discovered,
                                [kind |-> "subnet", prefix |-> NetStr(subnet_net)])
        /\ cidr_data' = AppendWhereInside(cidr_data, user_cidrs, subnet_net,
                                          UsedRow(subnet_net, "subnet", owner))
        /\ used_subnets_map' = AddWhereInside(used_subnets_map, user_cidrs, subnet_net)
    /\ UNCHANGED <<mode, pc, user_cidrs, n, pie_data>>
    /\ UNCHANGED engineVars /\ UNCHANGED sortVars

\* line 272
CollectReturn ==
    /\ mode = "main" /\ pc = "collect"
    /\ pc' = "unused"
    /\ n' = 1
    /\ UNCHANGED <<mode, user_cidrs, discovered, cidr_data, used_subnets_map, pie_data>>
    /\ UNCHANGED engineVars /\ UNCHANGED sortVars

\* lines 280-295, one user_cidr
UnusedLoop ==
    /\ mode = "main" /\ pc = "unused"
    /\ n <= Len(user_cidrs)
    /\ LET user_cidr == user_cidrs[n]
           nets == used_subnets_map[NetStr(user_cidr)]
           unused_subnets == find_unused_subnets(user_cidr, SetToSeq(nets))
       IN cidr_data' = [cidr_data EXCEPT
                           ![NetStr(user_cidr)] = AppendRows(@, unused_subnets)]
    /\ n' = n + 1
    /\ UNCHANGED <<mode, pc, user_cidrs, discovered, used_subnets_map, pie_data>>
    /\ UNCHANGED engineVars /\ UNCHANGED sortVars

\* line 315
PieData ==
    /\ mode = "main" /\ pc = "unused"
    /\ n > Len(user_cidrs)
    /\ pie_data' = get_pie_data(user_cidrs, cidr_data)
    /\ pc' = "done"
    /\ UNCHANGED <<mode, user_cidrs, discovered, cidr_data, used_subnets_map, n>>
    /\ UNCHANGED engineVars /\ UNCHANGED sortVars

Init == InitMain

Next ==
    \/ CollectVnetPrefix
    \/ CollectSubnetNoPrefix
    \/ CollectSubnet
    \/ CollectReturn
    \/ UnusedLoop
    \/ PieData

Spec == Init /\ [][Next]_vars

\* ------------------------------------------------------------------------
\* Properties of find_unused_subnets (SpecEngine)
\* ------------------------------------------------------------------------
Addrs(b) == b.network_address .. broadcast_address(b)

Range(s) == { s[k] : k \in 1 .. Len(s) }

Covered(S) == UNION { Addrs(b) : b \in S }

RECURSIVE SumSeq(_)
SumSeq(s) == IF s = <<>> THEN 0 ELSE Cardinality(Addrs(Head(s))) + SumSeq(Tail(s))

RECURSIVE SumSet(_)
SumSet(S) ==
    IF S = {} THEN 0
    ELSE LET b == CHOOSE x \in S : TRUE IN Cardinality(Addrs(b)) + SumSet(S \ {b})

RemoveAt(s, j) == SubSeq(s, 1, j - 1) \o SubSeq(s, j + 1, Len(s))

EngineDone == mode = "engine" /\ pc = "done"

\* every occupied block of the input lies inside the parent
AllInside ==
    \A k \in 1 .. Len(used_networks) :
        subnet_of(ip_network(used_networks[k]), parent_cidr)

\* the distinct occupied blocks that were inside some available block when
\* they were processed
ExcludedU == { used[k] : k \in { j \in 1 .. Len(excluded) : excluded[j] } }

SkippedIdx == { k \in 1 .. Len(excluded) : ~excluded[k] }

PairwiseDisjointSeq(s) ==
    \A j, k \in 1 .. Len(s) : j # k => Addrs(s[j]) \cap Addrs(s[k]) = {}

\* C1: exact coverage. For occupied blocks inside the parent, the sizes of
\* the returned free blocks plus the sizes of the distinct blocks actually
\* excluded add up to the size of the parent, their union is the parent's
\* address range, and no address is counted twice.
C1_ExactCoverage ==
    (EngineDone /\ AllInside) =>
        /\ SumSeq(available) + SumSet(ExcludedU) = num_addresses(parent_cidr)
        /\ Covered(Range(available)) \cup Covered(ExcludedU) = Addrs(parent_cidr)
        /\ PairwiseDisjointSeq(available)
        /\ \A u, v \in ExcludedU : u # v => Addrs(u) \cap Addrs(v) = {}
        /\ Covered(Range(available)) \cap Covered(ExcludedU) = {}

\* one block excluded, a second one skipped, free space left in two blocks
C1_Witness ==
    /\ EngineDone /\ AllInside
    /\ ExcludedU # {}
    /\ SkippedIdx # {}
    /\ Len(available) >= 2

\* C2: disjointness. For occupied blocks inside the parent (any two network
\* blocks are disjoint or nested), the working set is pairwise
\* non-overlapping after any number of exclusion steps and on return.
C2_Disjointness ==
    (mode = "engine" /\ pc \in {"loop", "done"} /\ AllInside) =>
        PairwiseDisjointSeq(available)

\* two exclusion steps done, three blocks in the working set
C2_Witness ==
    /\ mode = "engine" /\ pc = "loop" /\ AllInside
    /\ i = 3
    /\ excluded = <<TRUE, TRUE>>
    /\ Len(available) >= 3

Aligned(b) == b.network_address % Cardinality(Addrs(b)) = 0

\* the two equal halves of one larger aligned block
Buddies(a, b) ==
    /\ a # b
    /\ a.prefixlen = b.prefixlen
    /\ a.prefixlen > 0
    /\ a.network_address \div (2 * Cardinality(Addrs(a)))
         = b.network_address \div (2 * Cardinality(Addrs(b)))

\* C3: minimality. For occupied blocks inside the parent, every returned
\* block starts at a multiple of its size and no two returned blocks are the
\* two halves of one larger aligned block.
C3_Minimality ==
    (EngineDone /\ AllInside) =>
        /\ \A k \in 1 .. Len(available) : Aligned(available[k])
        /\ \A j, k \in 1 .. Len(available) :
               ~Buddies(available[j], available[k])

C3_Witness ==
    /\ EngineDone /\ AllInside
    /\ Len(available) >= 3
    /\ \E k \in 1 .. Len(excluded) :
           excluded[k] /\ used[k].prefixlen >= parent_cidr.prefixlen + 2

\* the next u is inside no block of the working set
SkipCase ==
    /\ mode = "engine" /\ pc = "loop" /\ i <= Len(used)
    /\ ~ \E k \in 1 .. Len(available) : subnet_of(used[i], available[k])

\* the input entries whose block was skipped at least once
SkippedInputs ==
    { j \in 1 .. Len(used_networks) :
        \E k \in SkippedIdx : used[k] = ip_network(used_networks[j]) }

C5_Idempotence ==
    EngineDone =>
        \A j \in 1 .. Len(used_networks) :
            Range(find_unused_subnets(parent_cidr,
                      Append(used_networks, used_networks[j])))
                = Range(available)

C5_Witness ==
    /\ EngineDone
    /\ Len(used_networks) >= 2
    /\ \E k \in 1 .. Len(excluded) : excluded[k] /\ used[k] # parent_cidr
    /\ available # <<>>

\* C9: no under-exclusion. For occupied blocks inside the parent, every
\* skipped block lies inside the space excluded by earlier blocks, the
\* returned blocks cover the parent minus the union of all occupied blocks,
\* and no returned block overlaps an occupied block.
C9_NoUnderExclusion ==
    (EngineDone /\ AllInside) =>
        /\ \A k \in SkippedIdx :
               Addrs(used[k]) \subseteq
                   Covered({ used[j] : j \in { m \in 1 .. k - 1 : excluded[m] } })
        /\ Covered(Range(available))
               = Addrs(parent_cidr) \ Covered(Range(used))
        /\ \A k \in 1 .. Len(available) : \A j \in 1 .. Len(used) :
               Addrs(available[k]) \cap Addrs(used[j]) = {}

\* a nested block that the caller lists before the block that holds it
C9_Witness ==
    /\ EngineDone /\ AllInside
    /\ available # <<>>
    /\ \E j, k \in 1 .. Len(used_networks) :
           /\ j < k
           /\ used_networks[j] # used_networks[k]
           /\ subnet_of(ip_network(used_networks[j]), ip_network(used_networks[k]))
    /\ SkippedIdx # {}

\* ------------------------------------------------------------------------
\* Properties of sort_ipam_dataframe (SpecSort)
\* ------------------------------------------------------------------------
SortDone == mode = "sort" /\ pc = "done"

\* df with its rows supplied in another order
Reordered(d, perm) == [k \in 1 .. Len(d) |-> d[perm[k]]]

Reorderings(d) == { Reordered(d, perm) : perm \in Permutations(1 .. Len(d)) }

SortKeys(d) == [k \in 1 .. Len(d) |-> <<d[k].Address, d[k].Prefix, d[k].Status>>]

\* two rows equal on address, prefix length and status, different otherwise
TiedRows(d) ==
    \E j, k \in 1 .. Len(d) :
        /\ d[j] # d[k]
        /\ d[j].Address = d[k].Address
        /\ d[j].Prefix = d[k].Prefix
        /\ d[j].Status = d[k].Status

\* C7 as stated: the output sequence is the same whatever order the rows were
\* supplied in, also for rows that differ only in owner metadata.
C7_OrderIndependent ==
    SortDone => \A d \in Reorderings(df) : sort_ipam_dataframe(d) = sorted_df

\* C7 amended: whatever order the rows are supplied in, the output has the
\* same sequence of (address, prefix length, status), and it is the same
\* sequence of rows when no two different rows are equal on all three.
C7_KeyOrderIndependent ==
    SortDone =>
        \A d \in Reorderings(df) :
            /\ SortKeys(sort_ipam_dataframe(d)) = SortKeys(sorted_df)
            /\ ~TiedRows(df) => sort_ipam_dataframe(d) = sorted_df

C7_Witness ==
    /\ SortDone
    /\ Len(df) = MaxRows
    /\ TiedRows(df)
    /\ sorted_df # df
    /\ \E j, k \in 1 .. Len(df) :
           df[j].Status = "Used" /\ df[k].Status = "Unused"
           /\ df[j].Address = df[k].Address /\ df[j].Prefix = df[k].Prefix

\* ------------------------------------------------------------------------
\* Properties of the collector, main's loop and get_pie_data (Spec)
\* ------------------------------------------------------------------------
MainDone == mode = "main" /\ pc = "done"

Count(rows, P(_)) == Cardinality({ k \in 1 .. Len(rows) : P(rows[k]) })

\* sum of 2^(W - prefix length) over the rows of one status
RECURSIVE SumStatus(_, _)
SumStatus(rows, st) ==
    IF rows = <<>> THEN 0
    ELSE (IF Head(rows).Status = st THEN Pow2(W - Head(rows).Prefix) ELSE 0)
         + SumStatus(Tail(rows), st)

RowsOf(cidr) == cidr_data[NetStr(cidr)]

\* C6: aggregation. Allocated is the sum of 2^(W - prefix length) over the
\* parent's Used rows, Unallocated is max(parent size - Allocated, 0) and is
\* never negative, also when the Used rows add up to more than the parent.
C6_Aggregation ==
    MainDone =>
        /\ Len(pie_data) = Len(user_cidrs)
        /\ \A k \in 1 .. Len(pie_data) :
            LET alloc == SumStatus(RowsOf(user_cidrs[k]), "Used")
                total == Pow2(W - user_cidrs[k].prefixlen)
            IN /\ pie_data[k].CIDR_Range = NetStr(user_cidrs[k])
               /\ pie_data[k].Allocated = alloc
               /\ pie_data[k].Unallocated >= 0
               /\ total - alloc >= 0 => pie_data[k].Unallocated = total - alloc
               /\ total - alloc < 0 => pie_data[k].Unallocated = 0

\* nested Used rows that add up to more than the parent
C6_Witness ==
    /\ MainDone
    /\ \E k \in 1 .. Len(pie_data) :
           /\ pie_data[k].Allocated > Pow2(W - user_cidrs[k].prefixlen)
           /\ pie_data[k].Unallocated = 0

HasPrefix(d) == d.prefix # <<>>

AfterUnusedLoop ==
    mode = "main" /\ pc \in {"unused", "done"} /\ n > Len(user_cidrs)

\* C8: row multiplicity. After the collector and the unused-subnet loop, each
\* parent's rows hold exactly one Used row per discovered occupied block
\* inside that parent, exactly one Unused row per free block of that parent,
\* and no other Used or Unused row.
C8_RowMultiplicity ==
    AfterUnusedLoop =>
        \A c \in 1 .. Len(user_cidrs) :
            LET cidr == user_cidrs[c]
                rows == RowsOf(cidr)
                free == find_unused_subnets(cidr,
                            SetToSeq(used_subnets_map[NetStr(cidr)]))
            IN /\ \A d \in 1 .. Len(discovered) :
                    (HasPrefix(discovered[d])
                        /\ subnet_of(ip_network(discovered[d].prefix), cidr))
                    => Count(rows, LAMBDA r : r.Status = "Used" /\ r.Owner = d
                                /\ <<r.Address, r.Prefix>> = discovered[d].prefix) = 1
               /\ \A f \in Range(free) :
                    Count(rows, LAMBDA r : r.Status = "Unused"
                                /\ <<r.Address, r.Prefix>> = NetStr(f)) = 1
               /\ Count(rows, LAMBDA r : r.Status = "Unused") = Len(free)
               /\ Count(rows, LAMBDA r : r.Status = "Used")
                    = Cardinality({ d \in 1 .. Len(discovered) :
                          HasPrefix(discovered[d])
                          /\ subnet_of(ip_network(discovered[d].prefix), cidr) })

\* C10: summary/row consistency. For every parent, Unallocated equals the
\* sum of the sizes of the parent's Unused rows and Allocated + Unallocated
\* equals the parent's size.
C10_SummaryMatchesRows ==
    MainDone =>
        \A k \in 1 .. Len(pie_data) :
            /\ pie_data[k].Unallocated = SumStatus(RowsOf(user_cidrs[k]), "Unused")
            /\ pie_data[k].Allocated + pie_data[k].Unallocated
                 = Pow2(W - user_cidrs[k].prefixlen)

====
